---- MODULE Spec2Model ----
(***************************************************************************)
(* A model of the tree normaliser and the outline decomposer of            *)
(* yaml_docx_filler (src/filler.py, src/documentHandler.py):               *)
(*   transform_data, read_yaml_file, get_mixed_types_str_keys,             *)
(*   get_mixed_types_dict_values.                                          *)
(* transform_data has the same text in both files.                         *)
(*                                                                         *)
(* Python objects live in a heap.  A list or a dict is a heap object named *)
(* by its address (Ref); strings, integers and None are immutable and are  *)
(* held inline.  A string is the sequence of its characters.  Every Python *)
(* value is a record of the same five fields, so values of different       *)
(* types can be compared.                                                  *)
(***************************************************************************)
EXTENDS Integers, Sequences, FiniteSets, TLC

VARIABLES
    heap,      \* the heap: heap[a] is the list or dict object at address a
    raw,       \* the value yaml.safe_load returned
    content,   \* the value bound to yaml_content / content / data
    ret,       \* ret[f]: the outcome of the call of function f on content
    stdout,    \* the lines printed so far
    last,      \* the last operation performed
    normalised \* whether content went through read_yaml_file's transform_data

vars == <<heap, raw, content, ret, stdout, last, normalised>>

----------------------------------------------------------------------------
\* Values

NL == "\n"

Str(s) == [tag |-> "str", s |-> s, n |-> 0, keys |-> <<>>, vals |-> <<>>]
Num(n) == [tag |-> "int", s |-> <<>>, n |-> n, keys |-> <<>>, vals |-> <<>>]
None == [tag |-> "none", s |-> <<>>, n |-> 0, keys |-> <<>>, vals |-> <<>>]
Ref(a) == [tag |-> "ref", s |-> <<>>, n |-> a, keys |-> <<>>, vals |-> <<>>]
\* A list object / tree: vals are its elements.
List(vs) == [tag |-> "list", s |-> <<>>, n |-> 0, keys |-> <<>>, vals |-> vs]
\* A dict object / tree: keys[i] maps to vals[i], in insertion order.
Dict(ks, vs) == [tag |-> "dict", s |-> <<>>, n |-> 0, keys |-> ks, vals |-> vs]

IsStr(v) == v.tag = "str"
IsRef(v) == v.tag = "ref"
\* isinstance(v, dict) / isinstance(v, list) for a value v in heap h
IsDict(h, v) == v.tag = "ref" /\ h[v.n].tag = "dict"
IsList(h, v) == v.tag = "ref" /\ h[v.n].tag = "list"

\* A tree is a value whose containers are nested in place instead of being
\* referred to by address: it is what a value looks like to ==.
IsContainer(t) == t.tag \in {"list", "dict"}

Range(f) == {f[i] : i \in DOMAIN f}

----------------------------------------------------------------------------
\* The heap

\* Allocation of a new object: its address is the next free one.
Alloc(h, obj) == [h |-> Append(h, obj), v |-> Ref(Len(h) + 1)]

RECURSIVE Load(_, _), LoadSeq(_, _, _, _)
\* yaml.safe_load: builds the objects of tree t in heap h.
Load(h, t) ==
    IF IsContainer(t)
    THEN LET c == LoadSeq(h, t.vals, 1, <<>>)
         IN Alloc(c.h, [t EXCEPT !.vals = c.vs])
    ELSE [h |-> h, v |-> t]
LoadSeq(h, ts, i, acc) ==
    IF i > Len(ts) THEN [h |-> h, vs |-> acc]
    ELSE LET c == Load(h, ts[i])
         IN LoadSeq(c.h, ts, i + 1, Append(acc, c.v))

RECURSIVE Deref(_, _)
\* The tree a value denotes in heap h.
Deref(h, v) ==
    IF IsRef(v)
    THEN LET o == h[v.n]
         IN [o EXCEPT !.vals = [i \in 1..Len(o.vals) |-> Deref(h, o.vals[i])]]
    ELSE v

----------------------------------------------------------------------------
\* A slip of rstrip: only the last newline is removed (as s[:-1] would).
rstrip_once(s) ==
    IF s # <<>> /\ s[Len(s)] = NL
    THEN SubSeq(s, 1, Len(s) - 1)
    ELSE s

RECURSIVE rstrip_ws(_)
\* A slip of rstrip: all trailing whitespace is removed (as data.rstrip()
\* without its argument would).
rstrip_ws(s) ==
    IF s # <<>> /\ s[Len(s)] \in {NL, " ", "\t"}
    THEN rstrip_ws(SubSeq(s, 1, Len(s) - 1))
    ELSE s

\* str.rstrip("\n"): removes the maximal trailing run of newline characters.
RECURSIVE rstrip(_)
rstrip(s) ==
    IF s # <<>> /\ s[Len(s)] = NL
    THEN rstrip(SubSeq(s, 1, Len(s) - 1))
    ELSE s

NoStringNotice == "There are no string elements in the data structure to transform."
NoDictNotice == "No dictionaries found in the list"

\* Index of key k in the key sequence ks, 0 when absent (dict lookup by ==).
KeyIndex(ks, k) ==
    IF \E i \in 1..Len(ks) : ks[i] = k
    THEN CHOOSE i \in 1..Len(ks) : ks[i] = k
    ELSE 0

\* A slip of DictSet: the entry is appended even when the key is present
\* (a list of pairs in place of a dict).
DictSetAppend(d, k, v) == Dict(Append(d.keys, k), Append(d.vals, v))

\* A slip of DictSet: a key already present keeps its first value (as
\* d.setdefault(k, v) would).
DictSetKeepFirst(d, k, v) ==
    IF KeyIndex(d.keys, k) = 0
    THEN Dict(Append(d.keys, k), Append(d.vals, v))
    ELSE d

\* d[k] = v on a dict under construction: a key already present keeps its
\* position and gets the new value, a new key is appended.
DictSet(d, k, v) ==
    LET i == KeyIndex(d.keys, k)
    IN IF i = 0
       THEN Dict(Append(d.keys, k), Append(d.vals, v))
       ELSE Dict(d.keys, [d.vals EXCEPT ![i] = v])

RECURSIVE transform_data(_, _, _), TransformItems(_, _, _, _, _), TransformList(_, _, _, _, _)
\* transform_data(data) run in heap h with out already printed:
\* [h, out, v] are the heap after, the output after and the returned value.
transform_data(h, out, data) ==
    IF IsDict(h, data)
    THEN LET r == TransformItems(h, out, h[data.n], 1, Dict(<<>>, <<>>))
             a == Alloc(r.h, r.acc)
         IN [h |-> a.h, out |-> r.out, v |-> a.v]
    ELSE IF IsList(h, data)
    THEN LET r == TransformList(h, out, h[data.n], 1, <<>>)
             a == Alloc(r.h, List(r.acc))
         IN [h |-> a.h, out |-> r.out, v |-> a.v]
    ELSE IF IsStr(data)
    THEN [h |-> h, out |-> out, v |-> Str(rstrip(data.s))]
    ELSE [h |-> h, out |-> Append(out, NoStringNotice), v |-> data]
RECURSIVE TransformItemsValuesOnly(_, _, _, _, _)
\* A slip of TransformItems: the keys are inserted as they are
\* ({key: transform_data(value) ...}).
TransformItemsValuesOnly(h, out, d, i, acc) ==
    IF i > Len(d.keys) THEN [h |-> h, out |-> out, acc |-> acc]
    ELSE LET v == transform_data(h, out, d.vals[i])
         IN TransformItemsValuesOnly(v.h, v.out, d, i + 1, DictSet(acc, d.keys[i], v.v))

\* the dict comprehension: key first, then value, then the insertion
TransformItems(h, out, d, i, acc) ==
    IF i > Len(d.keys) THEN [h |-> h, out |-> out, acc |-> acc]
    ELSE LET k == transform_data(h, out, d.keys[i])
             v == transform_data(k.h, k.out, d.vals[i])
         IN TransformItems(v.h, v.out, d, i + 1, DictSet(acc, k.v, v.v))
\* the list comprehension
TransformList(h, out, l, i, acc) ==
    IF i > Len(l.vals) THEN [h |-> h, out |-> out, acc |-> acc]
    ELSE LET e == transform_data(h, out, l.vals[i])
         IN TransformList(e.h, e.out, l, i + 1, Append(acc, e.v))

----------------------------------------------------------------------------
\* The outline decomposer

ErrorHere == <<"e", "r", "r", "o", "r", " ", "h", "e", "r", "e">>

Digit(d) == <<"0", "1", "2", "3", "4", "5", "6", "7", "8", "9">>[d + 1]
RECURSIVE Digits(_)
Digits(n) == IF n < 10 THEN <<Digit(n)>> ELSE Append(Digits(n \div 10), Digit(n % 10))

\* str(v) of a label: a string is itself, a number its decimal digits,
\* None the word None.
PyStr(v) ==
    IF IsStr(v) THEN v
    ELSE IF v.tag = "int" THEN Str(Digits(v.n))
    ELSE Str(<<"N", "o", "n", "e">>)

\* Whether `for x in v` is defined, and the items it yields: the elements
\* of a list, the keys of a dict, the characters of a string.
Iterable(h, v) == IsRef(v) \/ IsStr(v)
Iterate(h, v) ==
    IF IsList(h, v) THEN h[v.n].vals
    ELSE IF IsDict(h, v) THEN h[v.n].keys
    ELSE [i \in 1..Len(v.s) |-> Str(<<v.s[i]>>)]

\* One pass of the loop of get_mixed_types_str_keys: the label of item,
\* or the exception list(item.keys())[0] raises on a dict without keys.
Label(h, item) ==
    IF IsStr(item) THEN [exc |-> "", v |-> Str(rstrip(item.s))]
    ELSE IF IsDict(h, item)
    THEN IF h[item.n].keys = <<>>
         THEN [exc |-> "IndexError", v |-> None]
         ELSE [exc |-> "", v |-> h[item.n].keys[1]]
    ELSE [exc |-> "", v |-> Str(ErrorHere)]

RECURSIVE LabelLoop(_, _, _, _)
\* the for loop: the labels appended until the end or the first exception
LabelLoop(h, items, i, acc) ==
    IF i > Len(items) THEN [exc |-> "", acc |-> acc]
    ELSE LET l == Label(h, items[i])
         IN IF l.exc # "" THEN [exc |-> l.exc, acc |-> acc]
            ELSE LabelLoop(h, items, i + 1, Append(acc, l.v))

\* A slip of CollapseLabels: the list is returned whatever its length.
CollapseLabelsNever(labels, list) == list

\* The collapsing rule of get_mixed_types_str_keys: labels is the content of
\* mixed_str_key_list, whose address is list.
CollapseLabels(labels, list) ==
    IF Len(labels) = 1 THEN PyStr(labels[1]) ELSE list

\* get_mixed_types_str_keys(content) in heap h: [h, out, exc, v].
get_mixed_types_str_keys(h, out, c) ==
    LET m == Alloc(h, List(<<>>))                  \* mixed_str_key_list = []
        l == IF IsDict(h, c)                       \* list(content.values())
             THEN Alloc(m.h, List(m.h[c.n].vals))
             ELSE [h |-> m.h, v |-> c]
    IN IF ~Iterable(l.h, l.v)
       THEN [h |-> l.h, out |-> out, exc |-> "TypeError", v |-> None]
       ELSE LET r == LabelLoop(l.h, Iterate(l.h, l.v), 1, <<>>)
                h2 == [l.h EXCEPT ![m.v.n] = List(r.acc)]
            IN IF r.exc # ""
               THEN [h |-> h2, out |-> out, exc |-> r.exc, v |-> None]
               ELSE [h |-> h2, out |-> out, exc |-> "",
                     v |-> CollapseLabels(r.acc, m.v)]

\* A slip of Group: the first value itself is appended to dict_values, not
\* a copy of it.
GroupAlias(h, item) ==
    LET t == Alloc(h, List(<<>>))
        d == h[item.n]
    IN IF d.vals = <<>>
       THEN [h |-> t.h, exc |-> "IndexError", v |-> t.v]
       ELSE IF ~Iterable(h, d.vals[1])
       THEN [h |-> t.h, exc |-> "TypeError", v |-> t.v]
       ELSE [h |-> t.h, exc |-> "", v |-> d.vals[1]]

\* One dict item of the loop of get_mixed_types_dict_values: temp_list is
\* allocated, then filled with the items of the first value.
Group(h, item) ==
    LET t == Alloc(h, List(<<>>))                  \* temp_list = []
        d == h[item.n]
    IN IF d.vals = <<>>
       THEN [h |-> t.h, exc |-> "IndexError", v |-> t.v]
       ELSE IF ~Iterable(h, d.vals[1])
       THEN [h |-> t.h, exc |-> "TypeError", v |-> t.v]
       ELSE [h |-> [t.h EXCEPT ![t.v.n] = List(Iterate(h, d.vals[1]))],
             exc |-> "", v |-> t.v]

RECURSIVE GroupLoopAligned(_, _, _, _, _)
\* A slip of GroupLoop: an item that is no dict gets an empty group, which
\* keeps the groups aligned with the labels.
GroupLoopAligned(h, items, i, acc, cnt) ==
    IF i > Len(items) THEN [h |-> h, exc |-> "", acc |-> acc, cnt |-> cnt]
    ELSE IF IsDict(h, items[i])
    THEN LET g == Group(h, items[i])
         IN IF g.exc # ""
            THEN [h |-> g.h, exc |-> g.exc, acc |-> acc, cnt |-> cnt + 1]
            ELSE GroupLoopAligned(g.h, items, i + 1, Append(acc, g.v), cnt + 1)
    ELSE LET t == Alloc(h, List(<<>>))
         IN GroupLoopAligned(t.h, items, i + 1, Append(acc, t.v), cnt)

RECURSIVE GroupLoop(_, _, _, _, _)
\* the for loop: acc is dict_values, cnt is dict_count
GroupLoop(h, items, i, acc, cnt) ==
    IF i > Len(items) THEN [h |-> h, exc |-> "", acc |-> acc, cnt |-> cnt]
    ELSE IF IsDict(h, items[i])
    THEN LET g == Group(h, items[i])
         IN IF g.exc # ""
            THEN [h |-> g.h, exc |-> g.exc, acc |-> acc, cnt |-> cnt + 1]
            ELSE GroupLoop(g.h, items, i + 1, Append(acc, g.v), cnt + 1)
    ELSE GroupLoop(h, items, i + 1, acc, cnt)

\* The collapsing rule of get_mixed_types_dict_values: groups is the content
\* of dict_values, whose address is list.
CollapseGroups(groups, list) ==
    IF Len(groups) = 1 THEN groups[1] ELSE list

\* get_mixed_types_dict_values(content) in heap h: [h, out, exc, v].
get_mixed_types_dict_values(h, out, c) ==
    LET m == Alloc(h, List(<<>>))                  \* dict_values = []
    IN IF ~Iterable(m.h, c)
       THEN [h |-> m.h, out |-> out, exc |-> "TypeError", v |-> None]
       ELSE LET r == GroupLoop(m.h, Iterate(m.h, c), 1, <<>>, 0)
                h2 == [r.h EXCEPT ![m.v.n] = List(r.acc)]
            IN IF r.exc # ""
               THEN [h |-> h2, out |-> out, exc |-> r.exc, v |-> None]
               ELSE IF r.cnt = 0
               THEN [h |-> h2, out |-> Append(out, NoDictNotice), exc |-> "",
                     v |-> None]
               ELSE [h |-> h2, out |-> out, exc |-> "",
                     v |-> CollapseGroups(r.acc, m.v)]

----------------------------------------------------------------------------
\* The inputs: the trees yaml.safe_load can hand to the program

MaxStrLen == 2     \* longest string given to transform_data on its own
MaxLen == 3        \* longest outline (top-level list)
MaxKeys == 2       \* most entries of a top-level mapping
MaxFlatKeys == 4   \* most entries of a top-level mapping of scalars

Chars == {"a", " ", "\t", NL}
Strings == UNION {[1..k -> Chars] : k \in 0..MaxStrLen}
Scalars == {Str(s) : s \in Strings} \cup {Num(7), None}

\* Outline elements.  Plain text, with and without a trailing newline:
PlainTexts == {Str(<<"a">>), Str(<<"a", NL>>)}
\* groupings {label: items}, and single-key mappings whose value is no
\* sequence or whose key is no string:
Groupings == {Dict(<<Str(<<"b">>)>>, <<List(<<Str(<<"x">>), Str(<<"y", NL>>)>>)>>),
              Dict(<<Str(<<"c", NL>>)>>, <<List(<<>>)>>),
              Dict(<<Str(<<"b">>)>>, <<Num(7)>>),
              Dict(<<Num(3)>>, <<List(<<Str(<<"x">>)>>)>>)}
\* a mapping without keys, and a mapping of two keys that differ only by a
\* trailing newline:
OtherDicts == {Dict(<<>>, <<>>),
               Dict(<<Str(<<"b", NL>>), Str(<<"b">>)>>,
                    <<List(<<Str(<<"x", NL>>)>>), List(<<Num(7)>>)>>)}
\* elements that are neither strings nor mappings:
OtherElems == {Num(7), None, List(<<Str(<<"a", NL>>)>>)}
Elems == PlainTexts \cup Groupings \cup OtherDicts \cup OtherElems

Outlines == {List(es) : es \in UNION {[1..k -> Elems] : k \in 0..MaxLen}}

\* Top-level mappings (such as procedure: {policy: outline element}).
TopKeys == {Str(<<"p">>), Str(<<"p", NL>>), Str(<<"q">>)}
KeySeqs(k) == {ks \in [1..k -> TopKeys] : \A i, j \in 1..k : i # j => ks[i] # ks[j]}
MapVals == {Str(<<"a", NL>>), Num(7), Dict(<<>>, <<>>),
            Dict(<<Str(<<"b">>)>>, <<List(<<Str(<<"x">>), Str(<<"y", NL>>)>>)>>),
            List(<<Str(<<"a", NL>>), Dict(<<Str(<<"c", NL>>)>>, <<List(<<>>)>>)>>)}
Mappings == UNION {{Dict(ks, vs) : ks \in KeySeqs(k), vs \in [1..k -> MapVals]} :
                      k \in 0..MaxKeys}

\* Top-level mappings of scalars (such as the header fields), with keys
\* that differ only by trailing newlines among keys that do not.
FlatKeys == {Str(<<"p">>), Str(<<"p", NL>>), Str(<<"q">>), Str(<<"q", NL>>), Str(<<"r">>)}
FlatKeySeqs(k) == {ks \in [1..k -> FlatKeys] : \A i, j \in 1..k : i # j => ks[i] # ks[j]}
FlatVals == {Str(<<"a", NL>>), Num(7)}
FlatMappings == UNION {{Dict(ks, vs) : ks \in FlatKeySeqs(k), vs \in [1..k -> FlatVals]} :
                          k \in 0..MaxFlatKeys}

Inputs == Scalars \cup Outlines \cup Mappings \cup FlatMappings

----------------------------------------------------------------------------
\* The operations

Funcs == {"transform_data", "get_mixed_types_str_keys", "get_mixed_types_dict_values"}

NoCall == [done |-> FALSE, exc |-> "", v |-> None]
Outcome(r) == [done |-> TRUE, exc |-> r.exc, v |-> r.v]
Returned(f) == ret[f].done /\ ret[f].exc = ""
Raised(f) == ret[f].done /\ ret[f].exc # ""

\* Before the file is read: no object, no call.
Init ==
    /\ heap = <<>>
    /\ raw = None
    /\ content = None
    /\ ret = [f \in Funcs |-> NoCall]
    /\ stdout = <<>>
    /\ last = "start"
    /\ normalised = FALSE

\* yaml.safe_load(file): the tree t is built in the empty heap.
SafeLoad ==
    /\ last = "start"
    /\ \E t \in Inputs :
          LET c == Load(heap, t)
          IN /\ heap' = c.h
             /\ raw' = c.v
             /\ content' = c.v
    /\ last' = "safe_load"
    /\ UNCHANGED <<ret, stdout, normalised>>

Loaded == last # "start"

\* read_yaml_file after the load: yaml_content = transform_data(yaml_content)
ReadYamlFile ==
    /\ last = "safe_load"
    /\ LET r == transform_data(heap, stdout, content)
       IN /\ heap' = r.h
          /\ content' = r.v
          /\ stdout' = r.out
    /\ last' = "read_yaml_file"
    /\ normalised' = TRUE
    /\ UNCHANGED <<raw, ret>>

\* a call transform_data(content)
CallTransformData ==
    /\ Loaded
    /\ \A f \in Funcs : ~ret[f].done
    /\ LET r == transform_data(heap, stdout, content)
       IN /\ heap' = r.h
          /\ ret' = [ret EXCEPT !["transform_data"] = Outcome([exc |-> "", v |-> r.v])]
          /\ stdout' = r.out
    /\ last' = "transform_data"
    /\ UNCHANGED <<raw, content, normalised>>

\* a call get_mixed_types_str_keys(content)
CallStrKeys ==
    /\ Loaded
    /\ \A f \in Funcs : ~ret[f].done
    /\ LET r == get_mixed_types_str_keys(heap, stdout, content)
       IN /\ heap' = r.h
          /\ ret' = [ret EXCEPT !["get_mixed_types_str_keys"] = Outcome(r)]
          /\ stdout' = r.out
    /\ last' = "get_mixed_types_str_keys"
    /\ UNCHANGED <<raw, content, normalised>>

\* a call get_mixed_types_dict_values(content), on its own or after the
\* labels of the same content were taken
CallDictValues ==
    /\ Loaded
    /\ ~ret["transform_data"].done
    /\ ~ret["get_mixed_types_dict_values"].done
    /\ LET r == get_mixed_types_dict_values(heap, stdout, content)
       IN /\ heap' = r.h
          /\ ret' = [ret EXCEPT !["get_mixed_types_dict_values"] = Outcome(r)]
          /\ stdout' = r.out
    /\ last' = "get_mixed_types_dict_values"
    /\ UNCHANGED <<raw, content, normalised>>

Next ==
    \/ SafeLoad
    \/ ReadYamlFile
    \/ CallTransformData
    \/ CallStrKeys
    \/ CallDictValues

Spec == Init /\ [][Next]_vars

----------------------------------------------------------------------------
\* What the claims speak of

TD == "transform_data"
SK == "get_mixed_types_str_keys"
DV == "get_mixed_types_dict_values"

\* the input tree and the returned trees
In == Deref(heap, content)
Out(f) == Deref(heap, ret[f].v)

\* s without its trailing newlines, said without recursion: the prefix that
\* ends at the last character that is no newline
LastOther(s) ==
    IF \E i \in 1..Len(s) : s[i] # NL
    THEN CHOOSE i \in 1..Len(s) : s[i] # NL /\ \A j \in (i + 1)..Len(s) : s[j] = NL
    ELSE 0
Core(s) == SubSeq(s, 1, LastOther(s))
NormKey(k) == IF IsStr(k) THEN Str(Core(k.s)) ELSE k

\* the mapping elements of a sequence, in order
DictElems(t) == SelectSeq(t.vals, LAMBDA e : e.tag = "dict")
HasPlainText(t) == \E i \in 1..Len(t.vals) : IsStr(t.vals[i])

\* the label the specification gives an outline element
ExpectedLabel(e) ==
    IF IsStr(e) THEN Str(Core(e.s))
    ELSE IF e.tag = "dict" THEN e.keys[1]
    ELSE Str(ErrorHere)
ExpectedLabels(t) == [i \in 1..Len(t.vals) |-> ExpectedLabel(t.vals[i])]
\* the group the specification gives a mapping element
ExpectedGroup(e) == List(e.vals[1].vals)
ExpectedGroups(t) == [j \in 1..Len(DictElems(t)) |-> ExpectedGroup(DictElems(t)[j])]

----------------------------------------------------------------------------
\* C1: transform_data is idempotent: applied to a tree that transform_data
\* returned (the content read_yaml_file hands out), it returns an equal tree.
C1_Idempotent ==
    (normalised /\ Returned(TD)) => Out(TD) = In

\* a tree that normalisation changed has been normalised a second time
C1_Witness ==
    /\ normalised /\ Returned(TD)
    /\ IsRef(content)
    /\ Deref(heap, raw) # In

----------------------------------------------------------------------------
RECURSIVE SameShape(_, _)
\* u has the container nesting of t, the length of t at every level, and
\* differs from t in strings only
SameShape(t, u) ==
    IF IsContainer(t)
    THEN /\ u.tag = t.tag
         /\ Len(u.keys) = Len(t.keys)
         /\ Len(u.vals) = Len(t.vals)
         /\ \A i \in 1..Len(t.keys) : SameShape(t.keys[i], u.keys[i])
         /\ \A i \in 1..Len(t.vals) : SameShape(t.vals[i], u.vals[i])
    ELSE IF IsStr(t) THEN IsStr(u)
    ELSE u = t

RECURSIVE NormShape(_, _)
\* as SameShape, but a mapping has one key per distinct normalised key of t
NormShape(t, u) ==
    IF t.tag = "list"
    THEN /\ u.tag = "list"
         /\ Len(u.vals) = Len(t.vals)
         /\ \A i \in 1..Len(t.vals) : NormShape(t.vals[i], u.vals[i])
    ELSE IF t.tag = "dict"
    THEN /\ u.tag = "dict"
         /\ Len(u.keys) = Cardinality({NormKey(k) : k \in Range(t.keys)})
         /\ Len(u.vals) = Len(u.keys)
         /\ \A j \in 1..Len(u.keys) :
               \E i \in 1..Len(t.keys) :
                   /\ u.keys[j] = NormKey(t.keys[i])
                   /\ NormShape(t.vals[i], u.vals[j])
         /\ Len(u.keys) = Len(t.keys) =>
               \A i \in 1..Len(t.keys) :
                   /\ u.keys[i] = NormKey(t.keys[i])
                   /\ NormShape(t.vals[i], u.vals[i])
    ELSE IF IsStr(t) THEN IsStr(u)
    ELSE u = t

\* C2, as claimed: transform_data preserves shape: same nesting, every
\* sequence the same length and every mapping the same number of keys as in
\* the input, only string leaves differ.
C2_ShapePreserved ==
    Returned(TD) => SameShape(In, Out(TD))

\* C2, amended: same nesting, every sequence the same length, and every
\* mapping one key per distinct normalised key of the input mapping (as many
\* keys as the input when no two of its keys differ only by trailing
\* newlines, fewer otherwise); non-string leaves are unchanged.
C2_NormShape ==
    Returned(TD) => NormShape(In, Out(TD))

\* transform_data has returned a mapping with fewer keys than its input
C2_Witness ==
    /\ Returned(TD)
    /\ In.tag = "dict"
    /\ Len(Out(TD).keys) < Len(In.keys)

----------------------------------------------------------------------------
\* C3: get_mixed_types_str_keys on n # 1 elements (the elements of a list,
\* the values of a mapping) returns the list of the n labels, in order: the
\* string without its trailing newlines, the first key of a mapping,
\* "error here" for anything else.
C3_Labels ==
    (ret[SK].done /\ IsContainer(In) /\ Len(In.vals) # 1) =>
        /\ ret[SK].exc = ""
        /\ IsList(heap, ret[SK].v)
        /\ Out(SK).vals = ExpectedLabels(In)

\* C3 on the outlines whose mappings all have a key: there the labels are
\* as claimed.
C3_LabelsOfKeyed ==
    (ret[SK].done /\ IsContainer(In) /\ Len(In.vals) # 1
        /\ \A i \in 1..Len(In.vals) : In.vals[i].tag = "dict" => In.vals[i].keys # <<>>) =>
        /\ ret[SK].exc = ""
        /\ IsList(heap, ret[SK].v)
        /\ Out(SK).vals = ExpectedLabels(In)

----------------------------------------------------------------------------
\* C4: whenever get_mixed_types_str_keys returns, it returns a bare string
\* if and only if exactly one label was produced (that label, when it is a
\* string); for any other number of labels, zero included, it returns the
\* list of the labels in order.
C4_Collapse ==
    (Returned(SK) /\ IsContainer(In)) =>
        /\ IsStr(ret[SK].v) <=> Len(In.vals) = 1
        /\ (Len(In.vals) = 1 /\ IsStr(ExpectedLabel(In.vals[1]))) =>
               ret[SK].v = ExpectedLabel(In.vals[1])
        /\ Len(In.vals) # 1 =>
               /\ IsList(heap, ret[SK].v)
               /\ Out(SK).vals = ExpectedLabels(In)

\* a single label has been returned as a bare string
C4_Witness ==
    /\ Returned(SK) /\ IsContainer(In)
    /\ Len(In.vals) = 1
    /\ ret[SK].v = Str(<<"c", NL>>)

----------------------------------------------------------------------------
\* C5: get_mixed_types_dict_values on a sequence with two or more mapping
\* elements returns one group per mapping element, in order, each the items
\* under the mapping's first key.
C5_Groups ==
    (ret[DV].done /\ In.tag = "list" /\ Len(DictElems(In)) >= 2) =>
        /\ ret[DV].exc = ""
        /\ Out(DV) = List(ExpectedGroups(In))

\* C6: with exactly one mapping element the group itself is returned.
C6_SingleGroup ==
    (ret[DV].done /\ In.tag = "list" /\ Len(DictElems(In)) = 1) =>
        /\ ret[DV].exc = ""
        /\ Out(DV) = ExpectedGroup(DictElems(In)[1])

\* C7: None and the notice exactly when the sequence has no mapping element;
\* a sequence whenever it has one.
C7_Absent ==
    (ret[DV].done /\ In.tag = "list") =>
        /\ (ret[DV].exc = "" /\ ret[DV].v = None) <=> Len(DictElems(In)) = 0
        /\ NoDictNotice \in Range(stdout) <=> Len(DictElems(In)) = 0
        /\ Len(DictElems(In)) >= 1 => (ret[DV].exc = "" /\ IsList(heap, ret[DV].v))

\* C5, C6 and C7 on the sequences whose mappings all hold a sequence under
\* a first key: there the groups are as claimed.
WellFormedGroups ==
    \A i \in 1..Len(In.vals) :
        In.vals[i].tag = "dict" =>
            In.vals[i].vals # <<>> /\ In.vals[i].vals[1].tag = "list"
C5_GroupsOfWellFormed ==
    (ret[DV].done /\ In.tag = "list" /\ Len(DictElems(In)) >= 2 /\ WellFormedGroups) =>
        /\ ret[DV].exc = ""
        /\ Out(DV) = List(ExpectedGroups(In))
C6_SingleGroupOfWellFormed ==
    (ret[DV].done /\ In.tag = "list" /\ Len(DictElems(In)) = 1 /\ WellFormedGroups) =>
        /\ ret[DV].exc = ""
        /\ Out(DV) = ExpectedGroup(DictElems(In)[1])
C7_AbsentOfWellFormed ==
    (ret[DV].done /\ In.tag = "list" /\ WellFormedGroups) =>
        /\ (ret[DV].exc = "" /\ ret[DV].v = None) <=> Len(DictElems(In)) = 0
        /\ NoDictNotice \in Range(stdout) <=> Len(DictElems(In)) = 0
        /\ Len(DictElems(In)) >= 1 => (ret[DV].exc = "" /\ IsList(heap, ret[DV].v))

----------------------------------------------------------------------------
\* the length of a returned value: of the list, or of the bare string
ResultLen(f) == IF IsStr(ret[f].v) THEN Len(ret[f].v.s) ELSE Len(Out(f).vals)

\* C8, as claimed: on an outline with both plain strings and mappings, the
\* results of the two functions differ in length.
C8_Misaligned ==
    (In.tag = "list" /\ HasPlainText(In) /\ Len(DictElems(In)) >= 1
        /\ Returned(SK) /\ Returned(DV)) =>
        ResultLen(SK) # ResultLen(DV)

\* C8, amended: on an outline with a plain string and two or more mappings,
\* either get_mixed_types_dict_values raises, or both functions return, the
\* labels one per element and the groups one per mapping, so that there are
\* more labels than groups.
C8_MoreLabelsThanGroups ==
    (In.tag = "list" /\ HasPlainText(In) /\ Len(DictElems(In)) >= 2
        /\ ret[SK].done /\ ret[DV].done) =>
        \/ Raised(DV)
        \/ /\ Returned(SK) /\ Returned(DV)
           /\ IsList(heap, ret[SK].v) /\ IsList(heap, ret[DV].v)
           /\ Len(Out(SK).vals) = Len(In.vals)
           /\ Len(Out(DV).vals) = Len(DictElems(In))
           /\ Len(Out(SK).vals) > Len(Out(DV).vals)

\* both functions have returned on a plain string among two mappings
C8_Witness ==
    /\ In.tag = "list" /\ HasPlainText(In) /\ Len(DictElems(In)) >= 2
    /\ Returned(SK) /\ Returned(DV)

----------------------------------------------------------------------------
\* C9: on a top-level sequence, whatever its elements, neither function
\* raises.
C9_FailSoft ==
    In.tag = "list" => \A f \in {SK, DV} : ret[f].done => ret[f].exc = ""

----------------------------------------------------------------------------
\* A step that changes no object of the heap, hence leaves the input tree
\* as it was at every level, and returns no container that existed before.
PureStep ==
    /\ \A a \in DOMAIN heap : heap'[a] = heap[a]
    /\ Deref(heap', content) = Deref(heap, content)
    /\ \A f \in Funcs :
          (ret'[f] # ret[f] /\ IsRef(ret'[f].v)) => ret'[f].v.n \notin DOMAIN heap
    /\ (content' # content /\ IsRef(content')) => content'.n \notin DOMAIN heap

\* C10: a call of transform_data, get_mixed_types_str_keys or
\* get_mixed_types_dict_values leaves its input tree unchanged at every
\* level, and a container it returns is a newly constructed object.
C10_Purity == [][PureStep]_vars

\* both decomposer functions have returned a list for an outline with a
\* single grouping, whose group is returned on its own
C10_Witness ==
    /\ In.tag = "list" /\ Len(DictElems(In)) = 1
    /\ Returned(SK) /\ IsRef(ret[SK].v)
    /\ Returned(DV) /\ IsRef(ret[DV].v)

----------------------------------------------------------------------------
\* the keys of mapping t that normalise to k, by position
Colliding(t, k) == {i \in 1..Len(t.keys) : NormKey(t.keys[i]) = k}
LastOf(S) == CHOOSE i \in S : \A j \in S : j <= i
\* the position of key k in mapping u
PosOf(u, k) == CHOOSE j \in 1..Len(u.keys) : u.keys[j] = k

RECURSIVE NormTree(_)
\* the normalised tree, as the specification words it: strings without
\* their trailing newlines, sequences element by element, mappings with one
\* entry per normalised key, in order of first appearance, holding the
\* normalised value of the last entry of that key
NormTree(t) ==
    IF t.tag = "list"
    THEN List([i \in 1..Len(t.vals) |-> NormTree(t.vals[i])])
    ELSE IF t.tag = "dict"
    THEN LET firsts == SelectSeq([i \in 1..Len(t.keys) |-> i],
                                 LAMBDA i : \A j \in 1..(i - 1) :
                                     NormKey(t.keys[j]) # NormKey(t.keys[i]))
         IN Dict([j \in 1..Len(firsts) |-> NormKey(t.keys[firsts[j]])],
                 [j \in 1..Len(firsts) |->
                     NormTree(t.vals[LastOf(Colliding(t, NormKey(t.keys[firsts[j]])))])])
    ELSE IF IsStr(t) THEN Str(Core(t.s))
    ELSE t

\* C11: when keys of a mapping normalise to the same string, the mapping
\* transform_data returns holds a single entry for that key, whose value is
\* the normalised value of the entry that comes last in the input; the keys
\* that collide with no other keep their relative order.
C11_KeyCollision ==
    (Returned(TD) /\ In.tag = "dict") =>
        LET u == Out(TD)
        IN /\ u.tag = "dict"
           /\ \A i \in 1..Len(In.keys) :
                 Cardinality({j \in 1..Len(u.keys) : u.keys[j] = NormKey(In.keys[i])}) = 1
           /\ \A j \in 1..Len(u.keys) :
                 /\ Colliding(In, u.keys[j]) # {}
                 /\ u.vals[j] = NormTree(In.vals[LastOf(Colliding(In, u.keys[j]))])
           /\ \A i1, i2 \in 1..Len(In.keys) :
                 (/\ i1 < i2
                  /\ Cardinality(Colliding(In, NormKey(In.keys[i1]))) = 1
                  /\ Cardinality(Colliding(In, NormKey(In.keys[i2]))) = 1) =>
                     PosOf(u, NormKey(In.keys[i1])) < PosOf(u, NormKey(In.keys[i2]))

\* transform_data has returned for a mapping in which two keys collide, with
\* values that differ once normalised, between two keys that do not collide
C11_Witness ==
    /\ Returned(TD) /\ In.tag = "dict"
    /\ Len(In.keys) = 4
    /\ Cardinality(Colliding(In, NormKey(In.keys[1]))) = 1
    /\ Cardinality(Colliding(In, NormKey(In.keys[4]))) = 1
    /\ NormKey(In.keys[2]) = NormKey(In.keys[3])
    /\ NormTree(In.vals[2]) # NormTree(In.vals[3])

----------------------------------------------------------------------------
\* r is s with its maximal trailing run of newlines removed and nothing
\* else changed
StripRule(s, r) ==
    /\ Len(r) <= Len(s)
    /\ r = SubSeq(s, 1, Len(r))
    /\ \A i \in (Len(r) + 1)..Len(s) : s[i] = NL
    /\ r = <<>> \/ r[Len(r)] # NL
    /\ (s = <<>> \/ s[Len(s)] # NL) => r = s

\* C12: for a string, transform_data returns it without its maximal trailing
\* run of newlines and otherwise unchanged (leading and interior newlines,
\* trailing spaces and tabs are kept; a string that does not end in a
\* newline is returned as it is); so it does for the strings of a list.
C12_StringRule ==
    Returned(TD) =>
        /\ IsStr(In) => (IsStr(ret[TD].v) /\ StripRule(In.s, ret[TD].v.s))
        /\ In.tag = "list" =>
              \A i \in 1..Len(In.vals) :
                  IsStr(In.vals[i]) =>
                      /\ IsStr(Out(TD).vals[i])
                      /\ StripRule(In.vals[i].s, Out(TD).vals[i].s)

\* transform_data has removed the newline that follows a tab, and kept the tab
C12_Witness ==
    /\ Returned(TD)
    /\ In = Str(<<"\t", NL>>)
    /\ ret[TD].v = Str(<<"\t">>)

----------------------------------------------------------------------------
EndsInNewline(v) == IsStr(v) /\ v.s # <<>> /\ v.s[Len(v.s)] = NL
\* the labels get_mixed_types_str_keys returned, the bare string as one label
ReturnedLabels == IF IsStr(ret[SK].v) THEN <<ret[SK].v>> ELSE Out(SK).vals

\* C13: on content that transform_data returned (as read_yaml_file hands it
\* out), no label get_mixed_types_str_keys returns ends with a newline, be
\* it a plain string or the first key of a mapping, and the label of a plain
\* string is that string unchanged.
C13_NormalisedLabels ==
    (normalised /\ Returned(SK) /\ IsContainer(In)) =>
        /\ Len(ReturnedLabels) = Len(In.vals)
        /\ \A i \in 1..Len(ReturnedLabels) : ~EndsInNewline(ReturnedLabels[i])
        /\ \A i \in 1..Len(In.vals) :
              IsStr(In.vals[i]) => ReturnedLabels[i] = In.vals[i]

\* labels have been returned for a normalised outline whose plain string and
\* whose mapping key both ended with a newline in the file
C13_Witness ==
    /\ normalised /\ Returned(SK) /\ In.tag = "list"
    /\ \E i, j \in 1..Len(Deref(heap, raw).vals) :
          /\ EndsInNewline(Deref(heap, raw).vals[i])
          /\ Deref(heap, raw).vals[j].tag = "dict"
          /\ Deref(heap, raw).vals[j].keys # <<>>
          /\ EndsInNewline(Deref(heap, raw).vals[j].keys[1])

\* C13, second half: on content that was not normalised, the label taken
\* from a mapping key still ends with its newline (a state that is reached),
\* while the label of a plain string never does.
C13_RawKeyKeepsNewline ==
    /\ ~normalised /\ Returned(SK) /\ In.tag = "list"
    /\ \E i \in 1..Len(In.vals) :
          In.vals[i].tag = "dict" /\ EndsInNewline(ReturnedLabels[i])
    /\ \A i \in 1..Len(In.vals) :
          IsStr(In.vals[i]) => ~EndsInNewline(ReturnedLabels[i])

====
